---------------------------- MODULE Spec2Model ----------------------------
(***************************************************************************)
(* Model of the exchange WebSocket client subsystem:                       *)
(*   - WebSocketManager       (src/gui/utils/websocket_manager.py)         *)
(*   - DataProcessor          (src/gui/utils/data_processor.py)            *)
(*   - BitgetWebSocket        (src/modules/Websocket_Raw_Data/             *)
(*                             Bitget_Websocket_Raw_Data.py)               *)
(*   - KuCoinWebSocket        (src/modules/Websocket_Raw_Data/             *)
(*                             KuCoin_Websocket_Raw_Data.py)               *)
(*                                                                         *)
(* Python values: None is the string "None" (or the empty sequence where   *)
(* the other values are sequences), True/False returned to a caller are    *)
(* the strings "True"/"False", a DataFrame is the sequence of its rows.    *)
(***************************************************************************)
EXTENDS Integers, Sequences, FiniteSets, TLC

VARIABLES
    \* ---- WebSocketManager fields (websocket_manager.py:37-46) ----
    callback,           \* self.callback: TRUE when a callable was given
    websocket_client,   \* self.websocket_client: "None" or the client class name
    connected,          \* self.connected
    exchange,           \* self.exchange
    symbol,             \* self.symbol
    channels,           \* self.channels
    market_type,        \* self.market_type
    data_buffer,        \* self.data_buffer: sequence of rows
    last_update,        \* self.last_update: <<>> is None, <<t>> a timestamp
    stop_event,         \* self.stop_event: TRUE when set
    threads,            \* worker threads started by connect() and still alive
    \* ---- threads calling the manager's public methods ----
    pc,                 \* per caller: the place it is at
    args,               \* per caller: the arguments of the call in progress
    ret,                \* per caller: what its last completed call returned
    lastCall,           \* per caller: the call that returned last, with its arguments
    \* ---- message path ----
    now,                \* the clock datetime.now() reads
    frame,              \* the last frame handed to _data_callback
    processed,          \* what _process_data returned for it
    delivered,          \* timestamps of the rows _process_data produced, in
                        \* arrival order
    cb_calls,           \* rows the caller's callback was invoked with
    snapshot,           \* per caller: what its last get_data() returned, and
                        \* the rows that had been delivered at that moment
    \* ---- DataProcessor fields (data_processor.py:31-32) ----
    dp_buffer,          \* self.data_buffer: sequence of rows
    max_buffer_size,    \* self.max_buffer_size
    dp_rows,            \* rows handed to process_data since the buffer was last
                        \* emptied, in arrival order
    dp_next,            \* the next row to arrive
    \* ---- one exchange client, BitgetWebSocket or KuCoinWebSocket ----
    client_kind,        \* which class the client is: "BitGet" or "KuCoin"
    cx_market_type,     \* self.market_type (KuCoin)
    ws,                 \* self.ws: the socket held, 0 for None
    cx_connected,       \* self.connected
    cx_symbol,          \* self.symbol: the text split at "_", <<>> for None
    cx_channels,        \* self.channels
    reconnect_count,    \* self.reconnect_count
    token,              \* self.token: 0 for None, else the number of the
                        \* response it was taken from
    endpoint,           \* self.endpoint: likewise
    token_valid,        \* time.time() < self.token_expiry
    http_calls,         \* requests.post calls made by _get_ws_token
    last_url,           \* what the last _get_ws_token call returned:
                        \* <<endpoint, token>>, or <<>> when it raised
    sock,               \* every WebSocketApp made so far: its state
    sent,               \* per socket: the frames sent on it, in order
    closes,             \* close events since the last open event
    cx_ret,             \* the owner's last call of the client and whether
                        \* it raised
    last_ping,          \* self.last_ping
    run_pc,             \* run_websocket: "idle" before it is called, "loop"
                        \* while its loop runs, "ended" after its finally
    clock               \* time.time(), in seconds

dpVars == <<dp_buffer, max_buffer_size, dp_rows, dp_next>>
tokVars == <<token, endpoint, token_valid, http_calls, last_url>>
cxVars == <<client_kind, cx_market_type, ws, cx_connected, cx_symbol, cx_channels,
            reconnect_count, tokVars, sock, sent, closes, cx_ret, last_ping>>
runVars == <<run_pc, clock>>
restVars == <<dpVars, cxVars, runVars>>
mgrVars == <<callback, websocket_client, connected, exchange, symbol, channels,
             market_type, data_buffer, last_update, stop_event, threads>>
callVars == <<pc, args, ret, lastCall>>
msgVars == <<now, frame, processed, delivered, cb_calls, snapshot>>
vars == <<mgrVars, callVars, msgVars, restVars>>

-----------------------------------------------------------------------------
(* Bounds of the model *)

\* Frames handed to _data_callback in one run.
MaxFrames == 2

\* Threads that call connect(), disconnect() and get_data() concurrently.
Callers == {"c1", "c2"}

\* Arguments callers pass to connect().
Exchanges == {"KuCoin", "BitGet", "Binance"}
Symbols == {"BTC-USDT", "BTCUSDT_UMCBL"}
ChannelLists == {<<"ticker">>}
MarketTypes == {"futures"}

ConnectArgs ==
    [exchange : Exchanges, symbol : Symbols, channels : ChannelLists,
     market_type : MarketTypes]

\* Arguments of connect() in the message-path specification.
MsgConnectArgs == {a \in ConnectArgs : a.symbol = "BTC-USDT" /\ a.channels = <<"ticker">>}

NoArgs == [exchange |-> "None", symbol |-> "None", channels |-> <<>>,
           market_type |-> "None"]

\* Rows handed to a DataProcessor in one run, the largest max_buffer_size
\* tried, and the most rows in one process_data() call.
MaxRows == 8
MaxCapacity == 3
MaxBatch == 2

\* Rows of a CSV file handed to load_from_csv.
MaxCsvRows == 4

\* WebSocketApp objects one client makes in one run, and the sockets its
\* owner lets be in use at once: the owner calls connect() again only while
\* fewer are.
MaxSockets == 7
MaxLive == 2

\* time.time() when the model starts and the last second it looks at.
StartTime == 31
MaxClock == 64

\* WebSocketApp objects made while run_websocket is followed.
MaxRunSockets == 2

\* Sockets that may open where retrying is followed to its end: the later
\* ones only fail, so that the reconnect budget is used up within MaxSockets.
MaxOpened == 1

\* requests.post calls one KuCoin client makes in one run.
MaxHttp == 2

\* Frames sent on one socket before the owner stops calling subscribe().
MaxSent == 2

\* WebSocketApp objects made in the specification of the owner's calls.
MaxApiSockets == 2

\* Symbols and channel lists the owner passes to the client; a symbol is its
\* text split at "_".
ClientSymbols == {<<"BTCUSDT", "UMCBL">>, <<"ETHUSDT", "DMCBL">>, <<"BTCUSDT">>}
ClientChannelLists == {<<>>, <<"ticker">>, <<"ticker", "trade">>}

-----------------------------------------------------------------------------
(* Program constants *)

\* websocket_manager.py:179  `if len(self.data_buffer) > 1000`
ManagerCapacity == 1000

\* data_processor.py:24  `max_buffer_size=10000`
DefaultMaxBufferSize == 10000

\* Bitget_Websocket_Raw_Data.py:103 and KuCoin_Websocket_Raw_Data.py:109
\* `self.max_reconnects = 5`
max_reconnects == 5

-----------------------------------------------------------------------------
(* Frames: what a socket hands to _data_callback *)

\* A key the JSON object does not have.
Absent == "<absent>"

\* Values of a numeric JSON field as they arrive: decimal strings, text that
\* is no number, and "null" for a JSON null.
GoodNumbers == {"50000.1", "0.01"}
BadNumbers == {"abc", "null"}

\* float(x): the exception it raises, or "none".
FloatError(tok) ==
    CASE tok \in {"50000.1", "50000.0", "50000.2", "1000", "0.01", "0", "-0.01"} -> "none"
      [] tok = "null" -> "TypeError"
      [] OTHER -> "ValueError"

\* float(x) for text that parses: the value in hundredths.
Float(tok) ==
    CASE tok = "50000.1" -> 5000010
      [] tok = "50000.0" -> 5000000
      [] tok = "50000.2" -> 5000020
      [] tok = "1000" -> 100000
      [] tok = "0.01" -> 1
      [] tok = "-0.01" -> -1
      [] OTHER -> 0

\* A frame is raw text. `kind` says what json.loads makes of it: "invalid"
\* (no JSON), "object", "array" or "scalar". The other fields are the keys of
\* the object, nested keys written flat: data.<key> for KuCoin, arg.<key> and
\* data[0].<key> for BitGet. `data` is Absent, "object", "list" (one element)
\* or "empty_list"; `arg` is Absent or "object".
FrameKeys ==
    {"kind", "type", "subject", "action", "event", "arg", "data",
     "symbol", "price", "bestBidPrice", "bestAskPrice", "size", "side",
     "channel", "instId", "last", "bidPr", "askPr", "vol24h", "change"}

Blank(kind) == [k \in FrameKeys |-> IF k = "kind" THEN kind ELSE Absent]

\* The frame `base` with the keys of `more` set.
With(base, more) ==
    [k \in FrameKeys |-> IF k \in DOMAIN more THEN more[k] ELSE base[k]]

NotJson == Blank("invalid")

KuCoinTicker(s, p, b, a, z, d) ==
    With(Blank("object"),
         [type |-> "message", subject |-> "ticker", data |-> "object",
          symbol |-> s, price |-> p, bestBidPrice |-> b, bestAskPrice |-> a,
          size |-> z, side |-> d])

\* The ticker push of the specification's scenario A.
ScenarioA == KuCoinTicker("BTC-USDT", "50000.1", "50000.0", "50000.2", "0.01", "buy")

\* Ticker pushes whose numeric fields all parse.
KuCoinTickers ==
    { KuCoinTicker(s, p, b, a, z, d) :
        s \in {"BTC-USDT"}, p \in GoodNumbers, b \in GoodNumbers,
        a \in GoodNumbers, z \in GoodNumbers, d \in {"buy", "sell"} }
    \cup {ScenarioA}

\* Ticker pushes with one field unparseable or missing.
KuCoinBrokenTickers ==
    { With(ScenarioA, [price |-> p]) : p \in BadNumbers }
    \cup { With(ScenarioA, [size |-> z]) : z \in BadNumbers \cup {Absent} }
    \cup { With(ScenarioA, [side |-> Absent]),
           With(ScenarioA, [symbol |-> Absent]),
           With(Blank("object"), [type |-> "message", subject |-> "ticker"]) }

\* KuCoin frames that are no ticker push.
KuCoinControl ==
    { With(Blank("object"), [type |-> "welcome"]),
      With(Blank("object"), [type |-> "ack"]),
      With(Blank("object"), [type |-> "pong"]),
      With(Blank("object"), [subject |-> "ticker"]),
      With(ScenarioA, [subject |-> "level2"]) }

BitgetTicker(inst, l, b, a, v, ch) ==
    With(Blank("object"),
         [action |-> "snapshot", arg |-> "object", channel |-> "ticker",
          instId |-> inst, data |-> "list", last |-> l, bidPr |-> b,
          askPr |-> a, vol24h |-> v, change |-> ch])

\* The push of the specification's scenario B.
ScenarioB == BitgetTicker("BTCUSDT", "50000.1", "50000.0", "50000.2", "1000", "0.01")

BitgetTickers ==
    { BitgetTicker("BTCUSDT", "50000.1", b, "50000.2", "1000", ch) :
        b \in GoodNumbers, ch \in {"0.01", "0", "-0.01"} }
    \cup {ScenarioB}

BitgetBrokenTickers ==
    { With(ScenarioB, [change |-> ch]) : ch \in BadNumbers \cup {Absent} }
    \cup { With(ScenarioB, [data |-> "empty_list"]),
           With(ScenarioB, [instId |-> Absent]) }

\* BitGet frames that are no ticker push.
BitgetControl ==
    { With(Blank("object"),
           [event |-> "subscribe", arg |-> "object", channel |-> "ticker",
            instId |-> "BTCUSDT"]),
      With(Blank("object"), [event |-> "error"]),
      With(ScenarioB, [action |-> "update"]),
      With(ScenarioB, [channel |-> "books5"]) }

\* JSON text whose value is no object.
NonObjects == { Blank("array"), Blank("scalar") }

Frames ==
    KuCoinTickers \cup KuCoinBrokenTickers \cup KuCoinControl \cup BitgetTickers
    \cup BitgetBrokenTickers \cup BitgetControl \cup NonObjects \cup {NotJson}

-----------------------------------------------------------------------------
(* The exchange clients as WebSocketManager.connect() reaches them *)

\* Modules of the package modules.Websocket_Raw_Data and the class each defines.
ClientModules ==
    [Bitget_Websocket_Raw_Data |-> "BitgetWebSocket",
     KuCoin_Websocket_Raw_Data |-> "KuCoinWebSocket"]

\* `from modules.Websocket_Raw_Data.<module> import <class>`: the class, or
\* ImportError when the package has no such module or the module no such name.
ImportClient(module, class) ==
    IF module \in DOMAIN ClientModules /\ ClientModules[module] = class
    THEN class
    ELSE "ImportError"

\* Keyword parameters of KuCoinWebSocket.__init__ (it takes no **kwargs).
KuCoinInitParams == {"api_key", "api_secret", "passphrase", "market_type", "verbose"}

\* Keyword parameters of BitgetWebSocket.__init__.
BitgetInitParams == {"api_key", "api_secret", "passphrase", "verbose"}

\* Calling a class with keyword arguments `kwargs`: Python raises TypeError for
\* a keyword the constructor does not declare.
CallInit(params, kwargs) ==
    IF kwargs \subseteq params THEN "ok" ELSE "TypeError"

\* The keywords connect() passes to either client class.
ManagerKwargs == {"symbol", "market_type", "channels", "callback"}

\* The client classes as connect() takes them to be: importable under the
\* names it uses, with constructors that accept its keywords.
NewClientAccepting(exch) ==
    IF exch = "KuCoin" THEN "KuCoinWebSocket" ELSE "BitgetWebSocket"

\* Lines 75-83 and 99-107 of connect(): import the client class and construct
\* it. The result is the class name when an instance was made, otherwise the
\* exception raised inside the try block.
NewClient(exch) ==
    LET cls == IF exch = "KuCoin"
               THEN ImportClient("KuCoin_Websocket_Raw_Data", "KuCoinWebSocket")
               ELSE ImportClient("BitGet_Websocket_Raw_Data", "BitGetWebSocket")
        params == IF cls = "KuCoinWebSocket" THEN KuCoinInitParams
                  ELSE BitgetInitParams
    IN  IF cls = "ImportError" THEN "ImportError"
        ELSE IF CallInit(params, ManagerKwargs) = "ok" THEN cls
        ELSE "TypeError"

IsException(x) == x \in {"ImportError", "TypeError"}

-----------------------------------------------------------------------------
(* WebSocketManager.__init__ *)

NoCall == [op |-> "none", args |-> NoArgs]

NoSnapshot == [data |-> <<>>, delivered |-> <<>>]

InitManager ==
    /\ callback \in BOOLEAN
    /\ websocket_client = "None"
    /\ connected = FALSE
    /\ exchange = "None"
    /\ symbol = "None"
    /\ channels = <<>>
    /\ market_type = "None"
    /\ data_buffer = <<>>
    /\ last_update = <<>>
    /\ stop_event = FALSE
    /\ threads = 0

InitCallers ==
    /\ pc = [c \in Callers |-> "idle"]
    /\ args = [c \in Callers |-> NoArgs]
    /\ ret = [c \in Callers |-> "none"]
    /\ lastCall = [c \in Callers |-> NoCall]

InitMessages ==
    /\ now = 0
    /\ frame = NotJson
    /\ processed = <<>>
    /\ delivered = <<>>
    /\ cb_calls = <<>>
    /\ snapshot = [c \in Callers |-> NoSnapshot]

-----------------------------------------------------------------------------
(* WebSocketManager.connect *)

Return(c, op, value) ==
    /\ pc' = [pc EXCEPT ![c] = "idle"]
    /\ ret' = [ret EXCEPT ![c] = value]
    /\ lastCall' = [lastCall EXCEPT ![c] = [op |-> op, args |-> args[c]]]
    /\ args' = [args EXCEPT ![c] = NoArgs]

\* Line 62: the guard, read when the call starts.
ConnectGuard(c, a) ==
    /\ pc[c] = "idle"
    /\ args' = [args EXCEPT ![c] = a]
    /\ pc' = [pc EXCEPT ![c] = IF connected THEN "connect_reject" ELSE "connect_cfg"]
    /\ UNCHANGED <<ret, lastCall, mgrVars, msgVars, restVars>>

\* Lines 63-64: already connected, the call is refused.
ConnectReject(c) ==
    /\ pc[c] = "connect_reject"
    /\ Return(c, "connect", "False")
    /\ UNCHANGED <<mgrVars, msgVars, restVars>>

\* Lines 66-70: the configuration is stored and the stop flag cleared.
ConnectConfigure(c) ==
    /\ pc[c] = "connect_cfg"
    /\ exchange' = args[c].exchange
    /\ symbol' = args[c].symbol
    /\ channels' = args[c].channels
    /\ market_type' = args[c].market_type
    /\ stop_event' = FALSE
    /\ pc' = [pc EXCEPT ![c] = "connect_try"]
    /\ UNCHANGED <<callback, websocket_client, connected, data_buffer,
                   last_update, threads, args, ret, lastCall, msgVars, restVars>>

KnownExchanges == {"KuCoin", "BitGet"}

\* connect() without the handler of lines 126-128: the exception raised in the
\* try block goes to the caller.
ConnectTryUncaught(c) ==
    /\ pc[c] = "connect_try"
    /\ LET exch == args[c].exchange
           made == NewClient(exch)
       IN  IF exch \in KnownExchanges /\ ~IsException(made)
           THEN /\ websocket_client' = made
                /\ threads' = threads + 1
                /\ pc' = [pc EXCEPT ![c] = "connect_sleep"]
                /\ UNCHANGED <<args, ret, lastCall>>
           ELSE /\ Return(c, "connect", IF exch \in KnownExchanges THEN made ELSE "False")
                /\ UNCHANGED <<websocket_client, threads>>
    /\ UNCHANGED <<callback, connected, exchange, symbol, channels, market_type,
                   data_buffer, last_update, stop_event, msgVars, restVars>>

\* Lines 72-128 up to the sleep: the client is constructed and its worker
\* thread started; an exception anywhere in the try block, or an unknown
\* exchange, returns False.
ConnectTry(c) ==
    /\ pc[c] = "connect_try"
    /\ LET exch == args[c].exchange
           made == NewClient(exch)
       IN  IF exch \in KnownExchanges /\ ~IsException(made)
           THEN /\ websocket_client' = made
                /\ threads' = threads + 1
                /\ pc' = [pc EXCEPT ![c] = "connect_sleep"]
                /\ UNCHANGED <<args, ret, lastCall>>
           ELSE /\ Return(c, "connect", "False")
                /\ UNCHANGED <<websocket_client, threads>>
    /\ UNCHANGED <<callback, connected, exchange, symbol, channels, market_type,
                   data_buffer, last_update, stop_event, msgVars, restVars>>

\* Lines 94-96 / 118-120: after time.sleep(2) the manager is marked connected.
ConnectSleep(c) ==
    /\ pc[c] = "connect_sleep"
    /\ connected' = TRUE
    /\ Return(c, "connect", "True")
    /\ UNCHANGED <<callback, websocket_client, exchange, symbol, channels,
                   market_type, data_buffer, last_update, stop_event, threads,
                   msgVars, restVars>>

\* connect(): one step of a call in progress, or the start of a new call.
ConnectOver(c, argSet) ==
    CASE pc[c] = "idle" -> \E a \in argSet : ConnectGuard(c, a)
      [] pc[c] = "connect_reject" -> ConnectReject(c)
      [] pc[c] = "connect_cfg" -> ConnectConfigure(c)
      [] pc[c] = "connect_try" -> ConnectTry(c)
      [] pc[c] = "connect_sleep" -> ConnectSleep(c)
      [] OTHER -> FALSE

Connect(c) == ConnectOver(c, ConnectArgs)

-----------------------------------------------------------------------------
(* WebSocketManager.disconnect *)

\* disconnect() reporting failure when there is nothing to disconnect.
NoopResultFalse == "False"

\* Line 139: what disconnect() returns when there is no connection.
NoopResult == "True"

\* Line 137: the guard. When connected, line 143 sets the stop flag.
DisconnectGuard(c) ==
    /\ pc[c] = "idle"
    /\ IF ~connected
       THEN /\ pc' = [pc EXCEPT ![c] = "disconnect_noop"]
            /\ UNCHANGED stop_event
       ELSE /\ pc' = [pc EXCEPT ![c] = "disconnect_join"]
            /\ stop_event' = TRUE
    /\ UNCHANGED <<callback, websocket_client, connected, exchange, symbol,
                   channels, market_type, data_buffer, last_update, threads,
                   args, ret, lastCall, msgVars, restVars>>

\* Lines 138-139: nothing to disconnect, True is returned.
DisconnectNoop(c) ==
    /\ pc[c] = "disconnect_noop"
    /\ Return(c, "disconnect", NoopResult)
    /\ UNCHANGED <<mgrVars, msgVars, restVars>>

\* Lines 146-154: join(timeout=5) comes back whether or not the worker has
\* ended; the connection fields are reset and True is returned.
DisconnectReset(c) ==
    /\ pc[c] = "disconnect_join"
    /\ connected' = FALSE
    /\ websocket_client' = "None"
    /\ last_update' = <<>>
    /\ Return(c, "disconnect", "True")
    /\ UNCHANGED <<callback, exchange, symbol, channels, market_type,
                   data_buffer, stop_event, threads, msgVars, restVars>>

Disconnect(c) ==
    CASE pc[c] = "idle" -> DisconnectGuard(c)
      [] pc[c] = "disconnect_noop" -> DisconnectNoop(c)
      [] pc[c] = "disconnect_join" -> DisconnectReset(c)
      [] OTHER -> FALSE

-----------------------------------------------------------------------------
(* Message normalizer: _process_data, _process_kucoin_data, _process_bitget_data *)

\* What a normalizer returns: None is <<>>, a DataFrame is the sequence of its
\* rows (the normalizers only ever build one-row frames).
None == <<>>

\* d[key] on the parsed frame: KeyError when the key is missing.
HasKeys(f, keys) == \A k \in keys : f[k] # Absent

AllParse(f, keys) == \A k \in keys : FloatError(f[k]) = "none"

\* _process_kucoin_data taking every "message" frame for a ticker push.
ProcessKucoinDataAnySubject(f, t) ==
    IF f.kind = "object" /\ f.type = "message"
    THEN IF /\ f.data = "object"
            /\ HasKeys(f, {"symbol", "price", "bestBidPrice", "bestAskPrice", "size", "side"})
            /\ AllParse(f, {"price", "bestBidPrice", "bestAskPrice", "size"})
         THEN << [timestamp |-> t,
                  exchange |-> "KuCoin",
                  symbol |-> f.symbol,
                  price |-> Float(f.price),
                  best_bid |-> Float(f.bestBidPrice),
                  best_ask |-> Float(f.bestAskPrice),
                  volume |-> Float(f.size),
                  side |-> f.side,
                  raw_data |-> f] >>
         ELSE None
    ELSE None

\* _process_kucoin_data reading the size with data.get('size', 0): a push
\* without size still yields a row.
ProcessKucoinDataDefaultSize(f, t) ==
    IF f.kind = "object" /\ f.type = "message" /\ f.subject = "ticker"
    THEN IF /\ f.data = "object"
            /\ HasKeys(f, {"symbol", "price", "bestBidPrice", "bestAskPrice", "side"})
            /\ AllParse(f, {"price", "bestBidPrice", "bestAskPrice"})
            /\ (f.size = Absent \/ FloatError(f.size) = "none")
         THEN << [timestamp |-> t,
                  exchange |-> "KuCoin",
                  symbol |-> f.symbol,
                  price |-> Float(f.price),
                  best_bid |-> Float(f.bestBidPrice),
                  best_ask |-> Float(f.bestAskPrice),
                  volume |-> Float(f.size),
                  side |-> f.side,
                  raw_data |-> f] >>
         ELSE None
    ELSE None

\* _process_kucoin_data with best bid and best ask read from each other's key.
ProcessKucoinDataSwapped(f, t) ==
    IF f.kind = "object" /\ f.type = "message" /\ f.subject = "ticker"
    THEN IF /\ f.data = "object"
            /\ HasKeys(f, {"symbol", "price", "bestBidPrice", "bestAskPrice", "size", "side"})
            /\ AllParse(f, {"price", "bestBidPrice", "bestAskPrice", "size"})
         THEN << [timestamp |-> t,
                  exchange |-> "KuCoin",
                  symbol |-> f.symbol,
                  price |-> Float(f.price),
                  best_bid |-> Float(f.bestAskPrice),
                  best_ask |-> Float(f.bestBidPrice),
                  volume |-> Float(f.size),
                  side |-> f.side,
                  raw_data |-> f] >>
         ELSE None
    ELSE None

\* Lines 229-245. Any exception raised while the row is built (a missing key,
\* float() of text that is no number or of null) is caught at line 251.
ProcessKucoinData(f, t) ==
    IF f.kind = "object" /\ f.type = "message" /\ f.subject = "ticker"
    THEN IF /\ f.data = "object"
            /\ HasKeys(f, {"symbol", "price", "bestBidPrice", "bestAskPrice", "size", "side"})
            /\ AllParse(f, {"price", "bestBidPrice", "bestAskPrice", "size"})
         THEN << [timestamp |-> t,
                  exchange |-> "KuCoin",
                  symbol |-> f.symbol,
                  price |-> Float(f.price),
                  best_bid |-> Float(f.bestBidPrice),
                  best_ask |-> Float(f.bestAskPrice),
                  volume |-> Float(f.size),
                  side |-> f.side,
                  raw_data |-> f] >>
         ELSE None
    ELSE None

\* _process_bitget_data with the side decided by change >= 0.
ProcessBitgetDataZeroBuys(f, t) ==
    IF /\ f.kind = "object" /\ f.action = "snapshot"
       /\ f.arg # Absent /\ f.data # Absent
       /\ f.channel = "ticker"
    THEN IF /\ f.data = "list"
            /\ HasKeys(f, {"instId", "last", "bidPr", "askPr", "vol24h", "change"})
            /\ AllParse(f, {"last", "bidPr", "askPr", "vol24h", "change"})
         THEN << [timestamp |-> t,
                  exchange |-> "BitGet",
                  symbol |-> f.instId,
                  price |-> Float(f.last),
                  best_bid |-> Float(f.bidPr),
                  best_ask |-> Float(f.askPr),
                  volume |-> Float(f.vol24h),
                  side |-> IF Float(f.change) >= 0 THEN "buy" ELSE "sell",
                  raw_data |-> f] >>
         ELSE None
    ELSE None

\* Lines 267-284. data['data'][0] raises for an empty list (IndexError) and
\* for an object (KeyError); every exception is caught at line 290.
ProcessBitgetData(f, t) ==
    IF /\ f.kind = "object" /\ f.action = "snapshot"
       /\ f.arg # Absent /\ f.data # Absent
       /\ f.channel = "ticker"
    THEN IF /\ f.data = "list"
            /\ HasKeys(f, {"instId", "last", "bidPr", "askPr", "vol24h", "change"})
            /\ AllParse(f, {"last", "bidPr", "askPr", "vol24h", "change"})
         THEN << [timestamp |-> t,
                  exchange |-> "BitGet",
                  symbol |-> f.instId,
                  price |-> Float(f.last),
                  best_bid |-> Float(f.bidPr),
                  best_ask |-> Float(f.askPr),
                  volume |-> Float(f.vol24h),
                  side |-> IF Float(f.change) > 0 THEN "buy" ELSE "sell",
                  raw_data |-> f] >>
         ELSE None
    ELSE None

\* Lines 199-215: json.loads of the text (an exception for text that is no
\* JSON, caught at line 213), then the normalizer of the session's exchange.
ProcessData(f, exch, t) ==
    IF f.kind = "invalid" THEN None
    ELSE IF exch = "KuCoin" THEN ProcessKucoinData(f, t)
    ELSE IF exch = "BitGet" THEN ProcessBitgetData(f, t)
    ELSE None

\* The truth test as len(processed_data) > 0 would answer.
TruthOfRows(df) == IF Len(df) > 0 THEN "True" ELSE "False"

\* Line 171, `if processed_data:`. None is false. For a DataFrame Python calls
\* DataFrame.__bool__, which raises ValueError ("The truth value of a
\* DataFrame is ambiguous") whatever the frame holds.
Truth(df) == IF df = None THEN "False" ELSE "ValueError"

\* Lines 176-180 (and data_processor.py:53-57): concatenate, then keep the
\* last `cap` rows when there are more.
TailRows(rows, n) ==
    IF Len(rows) <= n THEN rows
    ELSE SubSeq(rows, Len(rows) - n + 1, Len(rows))

AppendBounded(buf, rows, cap) ==
    LET all == buf \o rows
    IN  IF Len(all) > cap THEN TailRows(all, cap) ELSE all

\* _data_callback(data), lines 167-187: normalize; when the result is true,
\* stamp last_update, append to the buffer, call the caller's callback.
\* The ValueError of the truth test leaves through the handler at line 186,
\* which only logs.
DataCallback(f) ==
    /\ now < MaxFrames
    /\ now' = now + 1
    /\ LET df == ProcessData(f, exchange, now')
       IN  /\ processed' = df
           /\ frame' = f
           /\ delivered' = delivered \o [i \in 1..Len(df) |-> df[i].timestamp]
           /\ IF Truth(df) = "True"
              THEN /\ last_update' = <<now'>>
                   /\ data_buffer' = AppendBounded(data_buffer, df, ManagerCapacity)
                   /\ cb_calls' = IF callback THEN cb_calls \o df ELSE cb_calls
              ELSE UNCHANGED <<last_update, data_buffer, cb_calls>>
    /\ UNCHANGED <<callback, websocket_client, connected, exchange, symbol,
                   channels, market_type, stop_event, threads, callVars, snapshot,
                   restVars>>

\* get_data(), line 357: the buffer object itself is handed out.
GetData(c) ==
    /\ pc[c] = "idle"
    /\ snapshot' = [snapshot EXCEPT ![c] = [data |-> data_buffer, delivered |-> delivered]]
    /\ UNCHANGED <<mgrVars, callVars, now, processed, frame, delivered, cb_calls,
                   restVars>>

-----------------------------------------------------------------------------
(* DataProcessor *)

\* __init__, lines 24-37.
InitDataProcessor(size) ==
    /\ dp_buffer = <<>>
    /\ max_buffer_size = size
    /\ dp_rows = <<>>
    /\ dp_next = 1

\* process_data(data), lines 39-59, for a frame of n new rows. None or an
\* empty frame returns at line 47.
ProcessDataRows(n) ==
    /\ dp_next + n - 1 <= MaxRows
    /\ LET rows == [i \in 1..n |-> dp_next + i - 1]
       IN  IF n = 0
           THEN UNCHANGED dpVars
           ELSE /\ dp_buffer' = AppendBounded(dp_buffer, rows, max_buffer_size)
                /\ dp_rows' = dp_rows \o rows
                /\ dp_next' = dp_next + n
                /\ UNCHANGED max_buffer_size
    /\ UNCHANGED <<mgrVars, callVars, msgVars, cxVars, runVars>>

\* clear_data(), lines 70-74.
ClearData ==
    /\ dp_buffer' = <<>>
    /\ dp_rows' = <<>>
    /\ UNCHANGED <<max_buffer_size, dp_next>>
    /\ UNCHANGED <<mgrVars, callVars, msgVars, cxVars, runVars>>

\* load_from_csv(filepath), lines 111-141: a missing or unreadable file
\* returns None (lines 122-124, 139-141); otherwise the n rows read replace
\* the buffer (line 134).
LoadFromCsv(found, n) ==
    /\ dp_next + n - 1 <= MaxRows
    /\ IF found
       THEN /\ dp_buffer' = [i \in 1..n |-> dp_next + i - 1]
            /\ dp_rows' = [i \in 1..n |-> dp_next + i - 1]
            /\ dp_next' = dp_next + n
            /\ UNCHANGED max_buffer_size
       ELSE UNCHANGED dpVars
    /\ UNCHANGED <<mgrVars, callVars, msgVars, cxVars, runVars>>

-----------------------------------------------------------------------------
(* The exchange clients: BitgetWebSocket and KuCoinWebSocket *)

ClientKinds == {"BitGet", "KuCoin"}

Sockets == 1..MaxSockets

\* __init__: Bitget lines 93-104, KuCoin lines 98-115.
InitClient(k, mt) ==
    /\ client_kind = k
    /\ cx_market_type = mt
    /\ ws = 0
    /\ cx_connected = FALSE
    /\ cx_symbol = <<>>
    /\ cx_channels = <<>>
    /\ reconnect_count = 0
    /\ token = 0
    /\ endpoint = 0
    /\ token_valid = FALSE
    /\ http_calls = 0
    /\ last_url = <<>>
    /\ sock = [s \in Sockets |-> "none"]
    /\ sent = [s \in Sockets |-> <<>>]
    /\ closes = 0
    /\ cx_ret = [call |-> "none", raised |-> FALSE]
    /\ last_ping = 0

\* _get_ws_token without the test of line 134: every call asks the server.
TokenOutcomesUncached ==
    IF client_kind = "BitGet" THEN {"no_token"}
    ELSE IF http_calls < MaxHttp THEN {"fetched", "error", "partial"}
    ELSE {}

\* KuCoin _get_ws_token, lines 133-159: the cached token while it is valid
\* (line 134); otherwise a request that yields token and endpoint
\* ("fetched"), that fails or carries another code ("error"), or whose body
\* has a token but no instanceServers entry ("partial": line 148 has run when
\* line 149 raises).
TokenOutcomes ==
    IF client_kind = "BitGet" THEN {"no_token"}
    ELSE IF token # 0 /\ token_valid THEN {"cached"}
    ELSE IF http_calls < MaxHttp THEN {"fetched", "error", "partial"}
    ELSE {}

\* _get_ws_token falling back on the token it holds when the request fails.
GetWsTokenStaleFallback(outcome) ==
    CASE outcome = "cached" ->
            /\ last_url' = <<endpoint, token>>
            /\ UNCHANGED <<token, endpoint, token_valid, http_calls>>
      [] outcome = "fetched" ->
            /\ http_calls' = http_calls + 1
            /\ token' = http_calls + 1
            /\ endpoint' = http_calls + 1
            /\ token_valid' = TRUE
            /\ last_url' = <<http_calls + 1, http_calls + 1>>
      [] outcome \in {"partial", "error"} ->
            /\ http_calls' = http_calls + 1
            /\ last_url' = IF token # 0 THEN <<endpoint, token>> ELSE <<>>
            /\ UNCHANGED <<token, endpoint, token_valid>>
      [] OTHER -> UNCHANGED tokVars

\* What _get_ws_token does to the client for each outcome.
GetWsToken(outcome) ==
    CASE outcome = "cached" ->
            /\ last_url' = <<endpoint, token>>
            /\ UNCHANGED <<token, endpoint, token_valid, http_calls>>
      [] outcome = "fetched" ->
            /\ http_calls' = http_calls + 1
            /\ token' = http_calls + 1
            /\ endpoint' = http_calls + 1
            /\ token_valid' = TRUE
            /\ last_url' = <<http_calls + 1, http_calls + 1>>
      [] outcome = "partial" ->
            /\ http_calls' = http_calls + 1
            /\ token' = http_calls + 1
            /\ last_url' = <<>>
            /\ UNCHANGED <<endpoint, token_valid>>
      [] outcome = "error" ->
            /\ http_calls' = http_calls + 1
            /\ last_url' = <<>>
            /\ UNCHANGED <<token, endpoint, token_valid>>
      [] OTHER -> UNCHANGED tokVars

\* The call raised.
Raises(outcome) == outcome \in {"error", "partial"}

\* The socket the next WebSocketApp(...) call makes.
NextSocket == 1 + Cardinality({s \in Sockets : sock[s] # "none"})

\* The body of connect(symbol, channels): Bitget lines 241-263, KuCoin lines
\* 316-343. `base` is the socket table the caller leaves behind. When the
\* token request raises, no socket is made and the exception leaves connect().
ConnectBody(sym, chans, outcome, base) ==
    /\ cx_symbol' = sym
    /\ cx_channels' = IF chans = <<>> THEN <<"ticker">> ELSE chans
    /\ GetWsToken(outcome)
    /\ IF Raises(outcome)
       THEN /\ sock' = base
            /\ UNCHANGED ws
       ELSE /\ NextSocket <= MaxSockets
            /\ sock' = [base EXCEPT ![NextSocket] = "connecting"]
            /\ ws' = NextSocket

\* Sockets that have not finished: connecting, open, or closing with a
\* reconnect still to come.
Live == {s \in Sockets : sock[s] \in {"connecting", "open", "sleeping"}}

\* connect(sym, chans) called by the owner of the client. The KuCoin client
\* lets the exception of the token request through (line 343).
ClientConnectWith(sym, chans) ==
    /\ Cardinality(Live) < MaxLive
    /\ \E outcome \in TokenOutcomes :
           /\ ConnectBody(sym, chans, outcome, sock)
           /\ cx_ret' = [call |-> "connect", raised |-> Raises(outcome)]
    /\ UNCHANGED <<client_kind, cx_market_type, last_ping, cx_connected, reconnect_count,
                   sent, closes>>
    /\ UNCHANGED <<mgrVars, callVars, msgVars, dpVars, runVars>>

ClientConnect == ClientConnectWith(<<"BTCUSDT", "UMCBL">>, <<"ticker">>)

\* _get_ws_token() called on a KuCoin client.
ClientGetToken ==
    /\ client_kind = "KuCoin"
    /\ \E outcome \in TokenOutcomes :
           /\ GetWsToken(outcome)
           /\ cx_ret' = [call |-> "_get_ws_token", raised |-> Raises(outcome)]
    /\ UNCHANGED <<client_kind, cx_market_type, last_ping, ws, cx_connected, cx_symbol,
                   cx_channels, reconnect_count, sock, sent, closes>>
    /\ UNCHANGED <<mgrVars, callVars, msgVars, dpVars, runVars>>

\* Bitget subscribe, lines 200-202: the text before the first "_".
CleanSymbol(sym) == IF Len(sym) > 1 THEN <<sym[1]>> ELSE sym

\* _get_topic answering with the futures topics for every market type.
TopicNameFuturesOnly(mt, channel) ==
    [root |-> "/contractMarket/", name |-> channel]

\* KuCoin _get_topic, lines 252-273: the topic is root + name + ":" + symbol.
TopicName(mt, channel) ==
    IF mt = "futures"
    THEN [root |-> "/contractMarket/", name |-> channel]
    ELSE [root |-> "/market/", name |-> IF channel = "trade" THEN "match" ELSE channel]

GetTopic(mt, channel, sym) ==
    [root |-> TopicName(mt, channel).root, name |-> TopicName(mt, channel).name,
     symbol |-> sym]

\* The frames subscribe(sym, chans) builds: Bitget lines 196-219 (one frame,
\* one argument per channel), KuCoin lines 283-294 (one frame per channel; the
\* id, a time stamp, is left out).
SubscribeFrames(k, mt, sym, chans) ==
    LET chs == IF chans = <<>> THEN <<"ticker">> ELSE chans
    IN  IF k = "BitGet"
        THEN << [op |-> "subscribe",
                 args |-> [i \in 1..Len(chs) |->
                              [instType |-> "USDT-FUTURES",
                               channel |-> chs[i],
                               instId |-> CleanSymbol(sym)]]] >>
        ELSE [i \in 1..Len(chs) |->
                 [type |-> "subscribe",
                  topic |-> GetTopic(mt, chs[i], sym),
                  response |-> TRUE]]

\* subscribe() sending on whatever socket the client holds.
SendUnguarded(frames, isConnected, socks) ==
    IF ws # 0
    THEN [sent EXCEPT ![ws] = @ \o frames]
    ELSE sent

\* The sending part of subscribe(), Bitget lines 222-230, KuCoin lines
\* 297-305: self.ws.send when self.ws is set and self.connected holds. A send
\* on a socket that is not open raises; the exception is caught and logged.
\* `isConnected` and `socks` are self.connected and the sockets at that time.
Send(frames, isConnected, socks) ==
    IF ws # 0 /\ isConnected /\ socks[ws] = "open"
    THEN [sent EXCEPT ![ws] = @ \o frames]
    ELSE sent

\* subscribe(sym, chans) called by the owner of the client.
ClientSubscribe(sym, chans) ==
    /\ ws # 0 => Len(sent[ws]) < MaxSent
    /\ sent' = Send(SubscribeFrames(client_kind, cx_market_type, sym, chans),
                    cx_connected, sock)
    /\ cx_ret' = [call |-> "subscribe", raised |-> FALSE]
    /\ UNCHANGED <<client_kind, cx_market_type, last_ping, ws, cx_connected, cx_symbol,
                   cx_channels, reconnect_count, tokVars, sock, closes>>
    /\ UNCHANGED <<mgrVars, callVars, msgVars, dpVars, runVars>>

\* on_open of socket s: Bitget lines 169-176, KuCoin lines 218-225. It ends in
\* subscribe(self.symbol, self.channels), whose frames go out on self.ws, the
\* socket made last.
OnOpen(s) ==
    /\ sock[s] = "connecting"
    /\ sock' = [sock EXCEPT ![s] = "open"]
    /\ cx_connected' = TRUE
    /\ reconnect_count' = 0
    /\ closes' = 0
    /\ sent' =
          IF cx_symbol # <<>> /\ cx_channels # <<>>
          THEN Send(SubscribeFrames(client_kind, cx_market_type, cx_symbol, cx_channels),
                    TRUE, sock')
          ELSE sent
    /\ last_ping' = clock
    /\ UNCHANGED <<client_kind, cx_market_type, ws, cx_symbol, cx_channels,
                   tokVars, cx_ret>>
    /\ UNCHANGED <<mgrVars, callVars, msgVars, dpVars, runVars>>

\* on_close with the cap compared by <= : one reconnect more than the cap.
OnCloseInclusive(s) ==
    /\ sock[s] \in {"connecting", "open", "closing"}
    /\ cx_connected' = FALSE
    /\ closes' = closes + 1
    /\ IF reconnect_count <= max_reconnects
       THEN /\ reconnect_count' = reconnect_count + 1
            /\ sock' = [sock EXCEPT ![s] = "sleeping"]
       ELSE /\ UNCHANGED reconnect_count
            /\ sock' = [sock EXCEPT ![s] = "closed"]
    /\ UNCHANGED <<client_kind, cx_market_type, last_ping, ws, cx_symbol, cx_channels,
                   tokVars, sent, cx_ret>>
    /\ UNCHANGED <<mgrVars, callVars, msgVars, dpVars, runVars>>

\* on_close of socket s up to the sleep: Bitget lines 150-157, KuCoin lines
\* 199-206. The handler runs when the socket is lost and when it was closed
\* with ws.close() ("closing"). Below the cap the counter is raised and the handler sleeps before
\* reconnecting; at the cap it logs and ends. No call stands between the
\* comparison and the increment, so no other handler runs between them.
OnClose(s) ==
    /\ sock[s] \in {"connecting", "open", "closing"}
    /\ cx_connected' = FALSE
    /\ closes' = closes + 1
    /\ IF reconnect_count < max_reconnects
       THEN /\ reconnect_count' = reconnect_count + 1
            /\ sock' = [sock EXCEPT ![s] = "sleeping"]
       ELSE /\ UNCHANGED reconnect_count
            /\ sock' = [sock EXCEPT ![s] = "closed"]
    /\ UNCHANGED <<client_kind, cx_market_type, last_ping, ws, cx_symbol, cx_channels,
                   tokVars, sent, cx_ret>>
    /\ UNCHANGED <<mgrVars, callVars, msgVars, dpVars, runVars>>

\* The reconnect of on_close starting the count anew.
ReconnectResets(s) ==
    /\ sock[s] = "sleeping"
    /\ \E outcome \in TokenOutcomes :
           ConnectBody(cx_symbol, cx_channels, outcome, [sock EXCEPT ![s] = "closed"])
    /\ reconnect_count' = 0
    /\ UNCHANGED <<client_kind, cx_market_type, last_ping, cx_connected, sent, closes, cx_ret>>
    /\ UNCHANGED <<mgrVars, callVars, msgVars, dpVars, runVars>>

\* on_close of socket s after the sleep: Bitget line 158, KuCoin line 207,
\* self.connect(self.symbol, self.channels). An exception of the KuCoin token
\* request ends the handler.
Reconnect(s) ==
    /\ sock[s] = "sleeping"
    /\ \E outcome \in TokenOutcomes :
           ConnectBody(cx_symbol, cx_channels, outcome, [sock EXCEPT ![s] = "closed"])
    /\ UNCHANGED <<client_kind, cx_market_type, last_ping, cx_connected, reconnect_count,
                   sent, closes, cx_ret>>
    /\ UNCHANGED <<mgrVars, callVars, msgVars, dpVars, runVars>>

\* 23 hours pass since the token was fetched (KuCoin line 152).
TokenExpires ==
    /\ token # 0 /\ token_valid
    /\ token_valid' = FALSE
    /\ UNCHANGED <<client_kind, cx_market_type, last_ping, ws, cx_connected, cx_symbol,
                   cx_channels, reconnect_count, token, endpoint, http_calls,
                   last_url, sock, sent, closes, cx_ret>>
    /\ UNCHANGED <<mgrVars, callVars, msgVars, dpVars, runVars>>

-----------------------------------------------------------------------------
(* run_websocket: the run loop of the command-line programs *)

\* Bitget line 374 and KuCoin line 398: the seconds after which the loop
\* pings; line 371 / 393: the seconds the loop sleeps in each round.
BitgetPingInterval == 30
KuCoinPingInterval == 18
PollStep == 1

PingInterval == IF client_kind = "BitGet" THEN BitgetPingInterval ELSE KuCoinPingInterval

InitRun ==
    /\ run_pc = "idle"
    /\ clock = StartTime

\* What _send_ping puts on the wire: Bitget line 182 the text "ping", KuCoin
\* lines 231-235 a message of type ping (its id, a time stamp, is left out).
PingFrame ==
    IF client_kind = "BitGet" THEN [text |-> "ping"] ELSE [type |-> "ping"]

\* The finally of run_websocket, Bitget lines 386-389, KuCoin lines 410-413:
\* client.ws.close() when the client holds a socket. close() on a socket that
\* has finished does nothing.
CloseHeld ==
    IF ws # 0 /\ sock[ws] \in {"connecting", "open"}
    THEN [sock EXCEPT ![ws] = "closing"]
    ELSE sock

\* run_websocket up to its loop, Bitget lines 354-367, KuCoin 376-390:
\* client.connect(symbol, channels). When connect raises, the handler logs and
\* the finally finds no socket to close.
RunStart(sym, chans) ==
    /\ run_pc = "idle"
    /\ \E outcome \in TokenOutcomes :
           /\ ConnectBody(sym, chans, outcome, sock)
           /\ cx_ret' = [call |-> "connect", raised |-> Raises(outcome)]
           /\ run_pc' = IF Raises(outcome) THEN "ended" ELSE "loop"
    /\ UNCHANGED <<client_kind, cx_market_type, last_ping, cx_connected,
                   reconnect_count, sent, closes, clock>>
    /\ UNCHANGED <<mgrVars, callVars, msgVars, dpVars>>

\* One round of the loop, Bitget lines 370-375, KuCoin 392-399: sleep a
\* second, then call _send_ping when more than the interval has passed since
\* last_ping. _send_ping (Bitget 178-186, KuCoin 227-239) sends when the
\* client holds a socket and is connected, and stamps last_ping; a send that
\* raises leaves the loop through the handler and the finally.
RunLoopStep ==
    /\ run_pc = "loop"
    /\ clock < MaxClock
    /\ clock' = clock + PollStep
    /\ IF clock' - last_ping > PingInterval /\ ws # 0 /\ cx_connected
       THEN IF sock[ws] = "open"
            THEN /\ sent' = [sent EXCEPT ![ws] = Append(@, PingFrame)]
                 /\ last_ping' = clock'
                 /\ UNCHANGED <<sock, run_pc>>
            ELSE /\ run_pc' = "ended"
                 /\ sock' = CloseHeld
                 /\ UNCHANGED <<sent, last_ping>>
       ELSE UNCHANGED <<sent, last_ping, sock, run_pc>>
    /\ UNCHANGED <<client_kind, cx_market_type, ws, cx_connected, cx_symbol,
                   cx_channels, reconnect_count, tokVars, closes, cx_ret>>
    /\ UNCHANGED <<mgrVars, callVars, msgVars, dpVars>>

\* The loop is left, by the timeout (Bitget lines 378-380), by Ctrl-C or by
\* an exception (382-385), and the finally closes the socket.
RunEnd ==
    /\ run_pc = "loop"
    /\ run_pc' = "ended"
    /\ sock' = CloseHeld
    /\ UNCHANGED <<client_kind, cx_market_type, last_ping, ws, cx_connected,
                   cx_symbol, cx_channels, reconnect_count, tokVars, sent, closes,
                   cx_ret, clock>>
    /\ UNCHANGED <<mgrVars, callVars, msgVars, dpVars>>

\* A second passes after run_websocket has returned.
Tick ==
    /\ run_pc = "ended"
    /\ clock < MaxClock
    /\ clock' = clock + 1
    /\ UNCHANGED <<run_pc, cxVars, mgrVars, callVars, msgVars, dpVars>>

-----------------------------------------------------------------------------
(* Specifications *)

Init ==
    /\ InitManager /\ InitCallers /\ InitMessages /\ InitRun
    /\ InitDataProcessor(DefaultMaxBufferSize)
    /\ InitClient("BitGet", "futures")

\* The manager under concurrent callers.
Next ==
    \/ \E c \in Callers : Connect(c)
    \/ \E c \in Callers : Disconnect(c)

Spec == Init /\ [][Next]_vars

\* The manager's message path: one caller, frames arriving.
NextMsg ==
    \/ ConnectOver("c1", MsgConnectArgs)
    \/ \E f \in Frames : DataCallback(f)
    \/ GetData("c1")

SpecMsg == Init /\ [][NextMsg]_vars

\* The manager after disconnect(): frames that still reach _data_callback
\* once a disconnect() has returned and before the next connect() starts.
AfterDisconnect(c) == lastCall[c].op = "disconnect" /\ pc[c] = "idle"

NextLate ==
    \/ ConnectOver("c1", MsgConnectArgs)
    \/ Disconnect("c1")
    \/ \E f \in Frames : AfterDisconnect("c1") /\ DataCallback(f)

SpecLate == Init /\ [][NextLate]_vars

\* A DataProcessor fed with frames of rows.
InitDP ==
    /\ InitManager /\ InitCallers /\ InitMessages /\ InitRun
    /\ \E size \in 1..MaxCapacity : InitDataProcessor(size)
    /\ InitClient("BitGet", "futures")

NextDP ==
    \/ \E n \in 0..MaxBatch : ProcessDataRows(n)
    \/ ClearData
    \/ \E found \in BOOLEAN, n \in 0..MaxCsvRows : LoadFromCsv(found, n)

SpecDP == InitDP /\ [][NextDP]_vars

\* One exchange client and the sockets it makes.
InitConn ==
    /\ InitManager /\ InitCallers /\ InitMessages /\ InitRun
    /\ InitDataProcessor(DefaultMaxBufferSize)
    /\ \E k \in ClientKinds : InitClient(k, "futures")

NextConn ==
    \/ ClientConnect
    \/ \E s \in Sockets : OnOpen(s)
    \/ \E s \in Sockets : OnClose(s)
    \/ \E s \in Sockets : Reconnect(s)
    \/ TokenExpires

SpecConn == InitConn /\ [][NextConn]_vars

\* One exchange client connected once and left to its handlers. A connecting
\* socket opens or fails in the end, and the sleep of on_close ends: both are
\* fair. The token expires only while a further request can be modelled.
Resolve(s) ==
    /\ sock[s] = "connecting"
    /\ \/ s <= MaxOpened /\ OnOpen(s)
       \/ OnClose(s)

NextRetry ==
    \/ ws = 0 /\ ClientConnect
    \/ \E s \in Sockets : s <= MaxOpened /\ OnOpen(s)
    \/ \E s \in Sockets : OnClose(s)
    \/ \E s \in Sockets : Reconnect(s)
    \/ http_calls < MaxHttp /\ TokenExpires

SpecRetry ==
    /\ InitConn
    /\ [][NextRetry]_vars
    /\ WF_vars(\E s \in Sockets : Reconnect(s))
    /\ WF_vars(\E s \in Sockets : Resolve(s))

\* One exchange client and the calls of its owner, over a few sockets.
InitApi ==
    /\ InitManager /\ InitCallers /\ InitMessages /\ InitRun
    /\ InitDataProcessor(DefaultMaxBufferSize)
    /\ \E k \in ClientKinds, mt \in {"futures", "spot"} :
          (k = "BitGet" => mt = "futures") /\ InitClient(k, mt)

NextApi ==
    \/ /\ NextSocket <= MaxApiSockets
       /\ \E sym \in ClientSymbols, chans \in ClientChannelLists :
             ClientConnectWith(sym, chans)
    \/ \E sym \in ClientSymbols, chans \in ClientChannelLists :
          ClientSubscribe(sym, chans)
    \/ ClientGetToken
    \/ \E s \in Sockets : OnOpen(s)
    \/ \E s \in Sockets : OnClose(s)
    \/ \E s \in Sockets : NextSocket <= MaxApiSockets /\ Reconnect(s)
    \/ TokenExpires

SpecApi == InitApi /\ [][NextApi]_vars

\* One exchange client run by run_websocket in a program that lives on.
InitRunWebsocket ==
    /\ InitManager /\ InitCallers /\ InitMessages /\ InitRun
    /\ InitDataProcessor(DefaultMaxBufferSize)
    /\ \E k \in ClientKinds : InitClient(k, "futures")

NextRun ==
    \/ RunStart(<<"BTCUSDT", "UMCBL">>, <<"ticker">>)
    \/ RunLoopStep
    \/ RunEnd
    \/ Tick
    \/ \E s \in Sockets : OnOpen(s)
    \/ \E s \in Sockets : OnClose(s)
    \/ \E s \in Sockets : NextSocket <= MaxRunSockets /\ Reconnect(s)
    \/ TokenExpires

SpecRun == InitRunWebsocket /\ [][NextRun]_vars

-----------------------------------------------------------------------------
(* Properties of WebSocketManager.connect and disconnect, under Spec *)

\* A call of connect() by c returns in this step.
ConnectReturns(c) ==
    /\ pc[c] \in {"connect_reject", "connect_try", "connect_sleep"}
    /\ pc'[c] = "idle"

\* c is the only caller that has used the manager, and no other is using it.
OnlyCaller(c) ==
    \A d \in Callers \ {c} : pc[d] = "idle" /\ lastCall[d].op = "none"

\* After this step the manager's configuration is what a connect() with
\* arguments a stores.
ConfiguredAs(a) ==
    /\ exchange' = a.exchange
    /\ symbol' = a.symbol
    /\ channels' = a.channels
    /\ market_type' = a.market_type

\* C1: when connect() is called again after a connect() for a known exchange
\* with no disconnect() in between, the second call returns False, no second
\* worker thread exists, and client, configuration and buffer are the ones the
\* first call left.
C1_DoubleConnect ==
    [][\A c \in Callers :
          ( /\ ConnectReturns(c)
            /\ OnlyCaller(c)
            /\ lastCall[c].op = "connect"
            /\ lastCall[c].args.exchange \in KnownExchanges )
          => ( /\ ret'[c] = "False"
               /\ threads' <= 1
               /\ websocket_client' = websocket_client
               /\ data_buffer' = data_buffer
               /\ ConfiguredAs(lastCall[c].args) )]_vars

C7_FailedConnect ==
    [][\A c \in Callers :
          (pc[c] = "connect_try" /\ pc'[c] = "idle")
          => (ret'[c] = "False" /\ ~connected')]_vars

\* A connect() for a known exchange and one for an unknown exchange have
\* both failed.
C7_Failed ==
    /\ lastCall["c1"].op = "connect" /\ lastCall["c1"].args.exchange = "KuCoin"
    /\ lastCall["c2"].op = "connect" /\ lastCall["c2"].args.exchange = "Binance"
    /\ ret["c1"] = "False" /\ ret["c2"] = "False"
    /\ ~connected

-----------------------------------------------------------------------------
(* Properties of the message path, under SpecMsg *)

\* _data_callback handles a frame in this step.
FrameHandled == now' = now + 1

\* What the exchanges document as a ticker push.
IsKuCoinTickerPush(f) ==
    f.kind = "object" /\ f.type = "message" /\ f.subject = "ticker"

IsBitgetTickerPush(f) ==
    f.kind = "object" /\ f.action = "snapshot" /\ f.arg = "object"
    /\ f.channel = "ticker" /\ f.data # Absent

IsTickerPushOf(f, exch) ==
    \/ exch = "KuCoin" /\ IsKuCoinTickerPush(f)
    \/ exch = "BitGet" /\ IsBitgetTickerPush(f)

\* The timestamps of the rows of a buffer.
Timestamps(buf) == [i \in 1..Len(buf) |-> buf[i].timestamp]

\* C4: the manager's buffer holds the rows the normalizer produced, at most
\* 1000 of them, the most recent ones in arrival order; the DataProcessor's
\* buffer holds the most recent max_buffer_size rows it was given.
C4_BufferHoldsLatest ==
    /\ Len(data_buffer) <= ManagerCapacity
    /\ Timestamps(data_buffer) = TailRows(delivered, ManagerCapacity)
    /\ Len(dp_buffer) <= max_buffer_size
    /\ dp_buffer = TailRows(dp_rows, max_buffer_size)

\* C5: what get_data() handed out is a complete buffer: at most 1000 rows,
\* no row twice, and every row produced up to then that is not evicted.
C5_SnapshotComplete ==
    \A c \in Callers :
        LET ts == Timestamps(snapshot[c].data)
        IN  /\ Len(ts) <= ManagerCapacity
            /\ \A i, j \in 1..Len(ts) : ts[i] = ts[j] => i = j
            /\ ts = TailRows(snapshot[c].delivered, ManagerCapacity)

\* C9: a frame that is no ticker push of the session's exchange yields None,
\* leaves buffer, last_update and the connection as they are, and the
\* caller's callback is not invoked.
C9_Dropped ==
    [][(FrameHandled /\ ~IsTickerPushOf(frame', exchange))
       => ( /\ processed' = None
            /\ data_buffer' = data_buffer
            /\ last_update' = last_update
            /\ cb_calls' = cb_calls
            /\ connected' = connected
            /\ websocket_client' = websocket_client
            /\ threads' = threads
            /\ stop_event' = stop_event )]_vars

\* A KuCoin session was handed a frame of another subject that carries a
\* full ticker payload, and dropped it.
C9_ControlFrameDropped ==
    /\ exchange = "KuCoin"
    /\ callback
    /\ now > 0
    /\ frame = With(ScenarioA, [subject |-> "level2"])
    /\ processed = None

\* The numeric fields of a KuCoin ticker payload parse, symbol and side are there.
IsCompleteKuCoinTicker(f) ==
    /\ IsKuCoinTickerPush(f)
    /\ f.data = "object"
    /\ \A k \in {"price", "bestBidPrice", "bestAskPrice", "size"} :
           f[k] # Absent /\ FloatError(f[k]) = "none"
    /\ f.symbol # Absent
    /\ f.side # Absent

\* C10: for a complete KuCoin ticker push the normalizer returns one row with
\* exchange "KuCoin" and symbol, price, best_bid, best_ask, volume and side
\* taken from data.symbol, data.price, data.bestBidPrice, data.bestAskPrice,
\* data.size and data.side.
C10_KuCoinMapping ==
    [][(FrameHandled /\ exchange = "KuCoin" /\ IsCompleteKuCoinTicker(frame'))
       => ( /\ Len(processed') = 1
            /\ processed'[1].exchange = "KuCoin"
            /\ processed'[1].symbol = frame'.symbol
            /\ processed'[1].price = Float(frame'.price)
            /\ processed'[1].best_bid = Float(frame'.bestBidPrice)
            /\ processed'[1].best_ask = Float(frame'.bestAskPrice)
            /\ processed'[1].volume = Float(frame'.size)
            /\ processed'[1].side = frame'.side )]_vars

\* The ticker push of scenario A was normalized in a KuCoin session.
C10_ScenarioANormalized ==
    /\ exchange = "KuCoin"
    /\ frame = ScenarioA
    /\ Len(processed) = 1
    /\ processed[1].price = 5000010
    /\ processed[1].best_bid = 5000000
    /\ processed[1].best_ask = 5000020
    /\ processed[1].side = "buy"

\* data[0] of a BitGet ticker push has last, bidPr, askPr, vol24h and change,
\* all of them numbers.
HasBitgetNumbers(f) ==
    /\ f.kind = "object" /\ f.action = "snapshot"
    /\ f.arg = "object" /\ f.channel = "ticker"
    /\ f.data = "list"
    /\ \A k \in {"last", "bidPr", "askPr", "vol24h", "change"} :
           f[k] # Absent /\ FloatError(f[k]) = "none"

\* The row the BitGet mapping makes of frame f.
IsBitgetRowOf(rows, f) ==
    /\ Len(rows) = 1
    /\ rows[1].exchange = "BitGet"
    /\ rows[1].symbol = f.instId
    /\ rows[1].price = Float(f.last)
    /\ rows[1].best_bid = Float(f.bidPr)
    /\ rows[1].best_ask = Float(f.askPr)
    /\ rows[1].volume = Float(f.vol24h)
    /\ rows[1].side = "buy" <=> Float(f.change) > 0
    /\ rows[1].side = "sell" <=> ~(Float(f.change) > 0)

\* C11 as stated: every BitGet snapshot of channel ticker whose data[0] has
\* parseable last, bidPr, askPr, vol24h and change is normalized to one row
\* with symbol arg.instId, the four numbers, and side by the sign of change.
C11_BitgetMappingAsStated ==
    [][(FrameHandled /\ exchange = "BitGet" /\ HasBitgetNumbers(frame'))
       => IsBitgetRowOf(processed', frame')]_vars

\* C11: the same for the frames whose arg also carries instId.
C11_BitgetMapping ==
    [][(FrameHandled /\ exchange = "BitGet" /\ HasBitgetNumbers(frame')
        /\ frame'.instId # Absent)
       => IsBitgetRowOf(processed', frame')]_vars

\* A BitGet push with change = 0 was normalized to a sell.
C11_ZeroChangeSells ==
    /\ exchange = "BitGet"
    /\ frame = BitgetTicker("BTCUSDT", "50000.1", "50000.1", "50000.2", "1000", "0")
    /\ Len(processed) = 1
    /\ processed[1].side = "sell"
    /\ processed[1].symbol = "BTCUSDT"
    /\ processed[1].volume = 100000

\* A mapped field of the ticker push f is missing, or a numeric one is no number.
IsIncomplete(f, exch) ==
    \/ /\ exch = "KuCoin"
       /\ \/ f.data # "object"
          \/ \E k \in {"symbol", "price", "bestBidPrice", "bestAskPrice", "size", "side"} :
                f[k] = Absent
          \/ \E k \in {"price", "bestBidPrice", "bestAskPrice", "size"} :
                FloatError(f[k]) # "none"
    \/ /\ exch = "BitGet"
       /\ \/ f.data # "list"
          \/ \E k \in {"instId", "last", "bidPr", "askPr", "vol24h", "change"} :
                f[k] = Absent
          \/ \E k \in {"last", "bidPr", "askPr", "vol24h", "change"} :
                FloatError(f[k]) # "none"

\* C12: a ticker push of the session's exchange with a mapped field missing
\* or a numeric field unparseable yields None, and the buffer, last_update
\* and the rows given to the callback stay as they are.
C12_AllOrNothing ==
    [][(FrameHandled /\ IsTickerPushOf(frame', exchange)
        /\ IsIncomplete(frame', exchange))
       => ( /\ processed' = None
            /\ data_buffer' = data_buffer
            /\ last_update' = last_update
            /\ cb_calls' = cb_calls )]_vars

\* A KuCoin ticker push without size was dropped.
C12_PushWithoutSizeDropped ==
    /\ exchange = "KuCoin"
    /\ now > 0
    /\ frame = With(ScenarioA, [size |-> Absent])
    /\ processed = None
    /\ data_buffer = <<>>

\* C16: for every frame that normalizes to a record, _data_callback appends
\* that one record to the manager's buffer, sets last_update, and calls the
\* caller's callback once with it; the records stand in the buffer in the
\* order their frames arrived.
C16_RecordDelivered ==
    [][(FrameHandled /\ processed' # None)
       => ( /\ Len(processed') = 1
            /\ data_buffer' = AppendBounded(data_buffer, processed', ManagerCapacity)
            /\ last_update' = <<now'>>
            /\ callback => cb_calls' = cb_calls \o processed' )]_vars

-----------------------------------------------------------------------------
(* Properties of the exchange clients, under SpecConn *)

\* on_close of socket s begins in this step.
CloseEvent(s) ==
    /\ sock[s] \in {"connecting", "open"}
    /\ sock'[s] \in {"sleeping", "closed"}

\* C3 as stated: after max_reconnects closes in a row with no open between
\* them the client has failed for good: no socket of it is in use and no
\* reconnect is to come.
C3_TerminallyFailed == closes >= max_reconnects => Live = {}

\* C3: after max_reconnects closes in a row with no open between them
\* reconnect_count is max_reconnects, and a close event that comes then
\* starts no reconnect and leaves the count as it is.
C3_NoReconnectAtCap ==
    [][/\ closes' >= max_reconnects => reconnect_count' = max_reconnects
       /\ \A s \in Sockets :
             (closes >= max_reconnects /\ CloseEvent(s))
             => ( /\ sock'[s] = "closed"
                  /\ reconnect_count' = max_reconnects
                  /\ NextSocket' = NextSocket )]_vars

\* One close more than the cap has come without an open, and the client has
\* stopped: nothing is in use, nothing is to come.
C3_BudgetUsedUp ==
    /\ closes = max_reconnects + 1
    /\ reconnect_count = max_reconnects
    /\ Live = {}
    /\ ~cx_connected

\* C18: in every reachable state of a client 0 <= reconnect_count <=
\* max_reconnects, and a step that takes reconnect_count from above zero to
\* zero is a step of on_open.
C18_CounterBounded ==
    /\ [](0 <= reconnect_count /\ reconnect_count <= max_reconnects)
    /\ [][(reconnect_count # 0 /\ reconnect_count' = 0)
          => \E s \in Sockets : OnOpen(s)]_vars

\* The first socket closed, its reconnect made the second, and the second
\* opened: on_open took the count from one to zero. (A BitGet reconnect
\* always makes a socket.)
C18_ResetByOpen ==
    /\ client_kind = "BitGet"
    /\ NextSocket = 3
    /\ sock[1] = "closed"
    /\ sock[2] = "open"
    /\ reconnect_count = 0

-----------------------------------------------------------------------------
(* Properties of the exchange clients under SpecApi *)

\* The symbols one frame carries on the wire: every instId of a Bitget
\* frame, the symbol of the topic of a KuCoin frame.
WireSymbols(f) ==
    IF "op" \in DOMAIN f THEN {f.args[i].instId : i \in 1..Len(f.args)}
    ELSE IF "topic" \in DOMAIN f THEN {f.topic.symbol}
    ELSE {}

\* C13: for both exchanges, whenever the client asked to subscribe to a
\* symbol puts frames on the wire, every symbol in those frames is the part of
\* the asked symbol before its suffix, and a symbol without a suffix is sent
\* as it is. Every subscribe frame is built from the symbol the client holds
\* or was just given, so the claim says that no frame on any socket carries a
\* symbol with a suffix.
C13_SuffixStripped ==
    \A s \in Sockets : \A i \in 1..Len(sent[s]) :
        \A sym \in WireSymbols(sent[s][i]) : Len(sym) = 1

\* C14: while the token a KuCoin client holds is valid (23 hours from the
\* call that fetched it) no step makes an HTTP call, and a call of the token
\* provider returns the URL the call before it returned; a call made once the
\* token has expired makes one new HTTP call.
C14_TokenCached ==
    [][ /\ (token # 0 /\ token_valid) =>
              /\ http_calls' = http_calls
              /\ ClientGetToken =>
                    /\ last_url' = last_url
                    /\ last_url' # <<>>
                    /\ ~cx_ret'.raised
        /\ (token # 0 /\ ~token_valid /\ ClientGetToken) =>
              http_calls' = http_calls + 1 ]_vars

\* A socket was made, so a token call succeeded before the owner's last
\* call, which was one of the token provider; one HTTP call was made in all.
C14_SecondCallCached ==
    /\ client_kind = "KuCoin"
    /\ cx_ret = [call |-> "_get_ws_token", raised |-> FALSE]
    /\ ws # 0
    /\ token_valid
    /\ http_calls = 1

\* The step made a token request that failed: a request was made and no
\* endpoint came of it.
TokenRequestFailed == http_calls' = http_calls + 1 /\ endpoint' = endpoint

\* C15: when the token request of a KuCoin client fails, the token provider
\* returns no URL, not even one built from an expired token it still holds,
\* the call that asked raises, and no socket is made.
C15_TokenFailure ==
    [][ TokenRequestFailed =>
            /\ last_url' = <<>>
            /\ ws' = ws
            /\ \A s \in Sockets : sock'[s] = "connecting" => sock[s] = "connecting"
            /\ cx_ret' # cx_ret => cx_ret'.raised ]_vars

\* connect() raised on a failed refresh while an expired token was held: no
\* socket was ever made.
C15_RefreshFailed ==
    /\ cx_ret = [call |-> "connect", raised |-> TRUE]
    /\ token # 0 /\ ~token_valid
    /\ http_calls > token
    /\ last_url = <<>>
    /\ ws = 0

\* The owner calls subscribe() in this step.
SubscribeCall ==
    /\ cx_ret'.call = "subscribe"
    /\ \E sym \in ClientSymbols, chans \in ClientChannelLists :
          ClientSubscribe(sym, chans)

\* The socket the client holds is open and the client knows it.
IsOpen == ws # 0 /\ cx_connected /\ sock[ws] = "open"

\* C20: a frame goes on the wire of a socket only while that socket is open
\* and the client is connected; subscribe() never raises and leaves the
\* state of the connection as it is, and called when the client is not open
\* it sends nothing.
C20_SubscribeOnlyOpen ==
    [][ /\ \A s \in Sockets :
              sent'[s] # sent[s] => (sock'[s] = "open" /\ cx_connected')
        /\ SubscribeCall =>
              /\ ~cx_ret'.raised
              /\ <<ws, cx_connected, sock, reconnect_count, cx_symbol, cx_channels>>'
                    = <<ws, cx_connected, sock, reconnect_count, cx_symbol, cx_channels>>
              /\ ~IsOpen => sent' = sent ]_vars

\* The owner called connect() a second time while the first socket was open
\* and then subscribe(): the socket the client holds is still connecting and
\* nothing was sent on it.
C20_SubscribeWhileConnecting ==
    /\ cx_ret = [call |-> "subscribe", raised |-> FALSE]
    /\ ws = 2
    /\ sock[1] = "open"
    /\ sock[2] = "connecting"
    /\ sent[2] = <<>>

\* C21: every step in which a socket of the client opens puts on that
\* socket the subscribe frames for the symbol and for every channel the
\* client was last connected with.
C21_SubscribedOnOpen ==
    [][ \A s \in Sockets :
           OnOpen(s) =>
              sent'[s] = sent[s] \o SubscribeFrames(client_kind, cx_market_type,
                                                    cx_symbol, cx_channels) ]_vars

\* C25: a client owns at most one socket at a time: no socket other than the
\* one it holds is connecting or open.
C25_OneSocket ==
    \A s \in Sockets : sock[s] \in {"connecting", "open"} => s = ws

\* The topic KuCoin documents for a channel: futures channels under
\* /contractMarket/, spot channels under /market/, spot trades as "match".
DocumentedTopic(mt, channel) ==
    IF mt = "futures" THEN <<"/contractMarket/", channel>>
    ELSE IF channel = "trade" THEN <<"/market/", "match">>
    ELSE <<"/market/", channel>>

\* C22: subscribe(sym, c1..cn) on an open client puts on the wire, for
\* BitGet, one frame with op "subscribe" and n args, the i-th with channel
\* ci, instType "USDT-FUTURES" and the symbol as instId; for KuCoin, n frames,
\* the i-th of type "subscribe" with response true and the topic of ci for the
\* client's market type. An empty channel list counts as <<"ticker">>.
C22_FrameShapes ==
    [][ \A sym \in ClientSymbols, chans \in ClientChannelLists :
          (IsOpen /\ ClientSubscribe(sym, chans)) =>
             LET chs == IF chans = <<>> THEN <<"ticker">> ELSE chans
                 new == SubSeq(sent'[ws], Len(sent[ws]) + 1, Len(sent'[ws]))
             IN  IF client_kind = "BitGet"
                 THEN /\ Len(new) = 1
                      /\ new[1].op = "subscribe"
                      /\ Len(new[1].args) = Len(chs)
                      /\ \A i \in 1..Len(chs) :
                            /\ new[1].args[i].channel = chs[i]
                            /\ new[1].args[i].instType = "USDT-FUTURES"
                            /\ new[1].args[i].instId = <<sym[1]>>
                 ELSE /\ Len(new) = Len(chs)
                      /\ \A i \in 1..Len(chs) :
                            /\ new[i].type = "subscribe"
                            /\ new[i].response = TRUE
                            /\ <<new[i].topic.root, new[i].topic.name>>
                                  = DocumentedTopic(cx_market_type, chs[i]) ]_vars

\* A spot KuCoin client that subscribed to ticker when it opened was asked
\* for ticker and trade: three frames, the last one for the match topic.
C22_SpotTradeSubscribed ==
    /\ client_kind = "KuCoin" /\ cx_market_type = "spot"
    /\ cx_ret = [call |-> "subscribe", raised |-> FALSE]
    /\ ws # 0 /\ sock[ws] = "open"
    /\ Len(sent[ws]) = 3
    /\ sent[ws][3].topic.name = "match"

\* A step makes a socket: one that did not exist is connecting.
SocketMade == \E s \in Sockets : sock[s] = "none" /\ sock'[s] = "connecting"

\* C23: every socket a KuCoin client makes is made with a token that is
\* valid at that moment, fetched in the same step when the client held none
\* or an expired one; and the token and endpoint the client holds always come
\* from the same response.
C23_FreshToken ==
    /\ [](client_kind = "KuCoin" => token = endpoint)
    /\ [][(client_kind = "KuCoin" /\ SocketMade) =>
             /\ token' # 0 /\ token_valid'
             /\ last_url' = <<endpoint', token'>>
             /\ ~(token # 0 /\ token_valid) => http_calls' = http_calls + 1 ]_vars

-----------------------------------------------------------------------------
(* Properties of the run loop, under SpecRun *)

\* C17: while the client is open, never more than the ping interval of its
\* exchange plus one round of the loop has passed since the last ping.
C17_HeartbeatGap ==
    IsOpen => clock - last_ping <= PingInterval + PollStep

\* C19: the close handler of a socket that was closed with ws.close() ends
\* with the client disconnected and the socket closed; it raises no reconnect
\* count and leaves no reconnect pending.
C19_LocalCloseFinal ==
    [][ \A s \in Sockets :
           (sock[s] = "closing" /\ sock'[s] # "closing")
           => ( /\ sock'[s] = "closed"
                /\ ~cx_connected'
                /\ reconnect_count' = reconnect_count ) ]_vars

\* C24: once the run loop has ended, whichever way, the socket it held is
\* closed and no socket of the client is connecting or open.
C24_NoSocketAfterRun ==
    run_pc = "ended" => \A s \in Sockets : sock[s] \notin {"connecting", "open"}

-----------------------------------------------------------------------------
(* Properties of the DataProcessor, under SpecDP *)

\* C30: in every reachable state of a DataProcessor its buffer holds at most
\* max_buffer_size rows, and process_data with a null or empty input leaves
\* the buffer as it is.
C30_BufferBounded ==
    /\ [](Len(dp_buffer) <= max_buffer_size)
    /\ [][ProcessDataRows(0) => dp_buffer' = dp_buffer]_vars

-----------------------------------------------------------------------------
(* Properties of retrying, under SpecRetry *)

\* C28: after a close with reconnect budget left, when the handler waits to
\* reconnect, the client in the end is open again or has used up its budget.
C28_KeepsRetrying ==
    (\E s \in Sockets : sock[s] = "sleeping")
        ~> (cx_connected \/ reconnect_count = max_reconnects)

=============================================================================
